---- MODULE Spec2Model ----
(***************************************************************************)
(* Model of include/ed25519.hpp: the Base58Check binding of the fixed-size *)
(* containers Data<N> (Seed, Public, Private) and the life cycle of Pair.  *)
(*                                                                         *)
(* A std::string is a sequence of character codes 0..255, a byte buffer a  *)
(* sequence of bytes 0..255, a uint_least32_t a record [hi, lo] of two     *)
(* 16-bit halves (value = hi * 65536 + lo).                                *)
(***************************************************************************)
EXTENDS Integers, Sequences, FiniteSets, TLC

(***************************************************************************)
(* Bounds of the model.                                                    *)
(***************************************************************************)
\* number of distinct non-zero key buffers per container size
NumBuffers == 3
\* number of sampled bit positions in the payload, and in the checksum
MaxFlips == 4
\* number of Pair objects that exist at the same time
MaxPairs == 3

(***************************************************************************)
(* namespace size, enum error.                                             *)
(***************************************************************************)
hash == 32
double_hash == hash * 2
public_key == hash
seed == hash
private_key == double_hash

BADFORMAT == 1000
UNEXPECTED_SIZE == 1001
EMPTY == 1002

Sizes == {hash, double_hash}

(***************************************************************************)
(* Evaluation helpers.                                                     *)
(***************************************************************************)
\* e, with v evaluated first (keeps the evaluation of long folds shallow)
Strict(v, e) == IF v = v THEN e ELSE e

\* table[key] when the table holds key, else the value computed directly
Cached(table, key, value) == IF key \in DOMAIN table THEN table[key] ELSE value

RECURSIVE Xor(_, _)
Xor(a, b) ==
    IF a = 0 THEN b
    ELSE IF b = 0 THEN a
    ELSE ((a + b) % 2) + 2 * Xor(a \div 2, b \div 2)

W32(h, l) == [hi |-> h, lo |-> l]
Xor32(x, y) == W32(Xor(x.hi, y.hi), Xor(x.lo, y.lo))
Shr32(x, k) ==
    IF k >= 16 THEN W32(0, x.hi \div (2^(k - 16)))
    ELSE W32(x.hi \div (2^k), (x.lo \div (2^k)) + (x.hi % (2^k)) * (2^(16 - k)))
\* static_cast<unsigned char>(x & 0xff)
LowByte(x) == x.lo % 256

\* number of leading elements of s equal to v
LeadCount(s, v) ==
    IF \A i \in 1..Len(s) : s[i] = v THEN Len(s)
    ELSE (CHOOSE i \in 1..Len(s) : s[i] # v /\ \A j \in 1..(i - 1) : s[j] = v) - 1

Strip(s) == SubSeq(s, LeadCount(s, 0) + 1, Len(s))

Zero(n) == [i \in 1..n |-> 0]

(***************************************************************************)
(* base58::crc32: reflected CRC-32, polynomial 0xEDB88320, initial value   *)
(* 0xFFFFFFFF, final complement.                                           *)
(***************************************************************************)
Poly == W32(60856, 33568)
AllOnes == W32(65535, 65535)

RECURSIVE TableStep(_, _)
TableStep(c, k) ==
    IF k = 0 THEN c
    ELSE TableStep(IF c.lo % 2 = 1 THEN Xor32(Shr32(c, 1), Poly) ELSE Shr32(c, 1),
                   k - 1)

CrcTable == [i \in 0..255 |-> TableStep(W32(0, i), 8)]

CrcStep(c, b) == Xor32(CrcTable[Xor(c.lo % 256, b)], Shr32(c, 8))

RECURSIVE CrcRange(_, _, _, _)
CrcRange(c, buf, lo, hi) ==
    IF lo > hi THEN c
    ELSE IF lo = hi THEN CrcStep(c, buf[lo])
    ELSE LET mid == (lo + hi) \div 2
             l == CrcRange(c, buf, lo, mid)
         IN Strict(l, CrcRange(l, buf, mid + 1, hi))

crc32(buf) == Xor32(CrcRange(AllOnes, buf, 1, Len(buf)), AllOnes)

(***************************************************************************)
(* Base58 alphabet codec: base58::encode(vector), and the alphabet decode  *)
(* that base58::decode(string, vector) starts with.                        *)
(***************************************************************************)
\* "123456789ABCDEFGHJKLMNPQRSTUVWXYZabcdefghijkmnopqrstuvwxyz"
Alphabet ==
    << 49, 50, 51, 52, 53, 54, 55, 56, 57,
       65, 66, 67, 68, 69, 70, 71, 72, 74, 75, 76, 77, 78,
       80, 81, 82, 83, 84, 85, 86, 87, 88, 89, 90,
       97, 98, 99, 100, 101, 102, 103, 104, 105, 106, 107,
       109, 110, 111, 112, 113, 114, 115, 116, 117, 118, 119, 120, 121, 122 >>

\* the value of each character, -1 for a character that is not of the alphabet
DigitTable ==
    [c \in 0..255 |->
        IF \E k \in 1..Len(Alphabet) : Alphabet[k] = c
        THEN (CHOOSE k \in 1..Len(Alphabet) : Alphabet[k] = c) - 1
        ELSE -1]

DigitOf(c) == DigitTable[c]

\* long division of the big-endian number num[lo..hi] (base `from`, incoming
\* remainder r) by `to`: <<quotient digits, remainder>>
RECURSIVE DivRange(_, _, _, _, _, _)
DivRange(num, from, to, lo, hi, r) ==
    IF lo > hi THEN <<(<<>>), r>>
    ELSE IF lo = hi
    THEN LET acc == r * from + num[lo] IN <<(<<acc \div to>>), acc % to>>
    ELSE LET mid == (lo + hi) \div 2
             l == DivRange(num, from, to, lo, mid, r)
             h == DivRange(num, from, to, mid + 1, hi, l[2])
         IN Strict(l, <<l[1] \o h[1], h[2]>>)

\* the k least significant base-`to` digits of num: <<num \div to^k, digits>>
RECURSIVE Digits(_, _, _, _)
Digits(num, from, to, k) ==
    IF k = 0 THEN <<num, (<<>>)>>
    ELSE IF k = 1
    THEN LET d == DivRange(num, from, to, 1, Len(num), 0)
         IN <<Strip(d[1]), (<<d[2]>>)>>
    ELSE LET a == Digits(num, from, to, k \div 2)
             b == Digits(a[1], from, to, k - (k \div 2))
         IN Strict(a, <<b[1], b[2] \o a[2]>>)

\* base58::encode(const std::vector<unsigned char>&)
base58_encode(data) ==
    LET z == LeadCount(data, 0)
        n == Len(data) - z
        digs == Strip(Digits(SubSeq(data, z + 1, Len(data)), 256, 58,
                             (n * 138) \div 100 + 1)[2])
    IN [i \in 1..z |-> Alphabet[1]] \o [i \in 1..Len(digs) |-> Alphabet[digs[i] + 1]]

\* the alphabet decode: fails on a character outside the alphabet
alphabet_decode(str) ==
    IF \E i \in 1..Len(str) : DigitOf(str[i]) < 0
    THEN [ok |-> FALSE, bytes |-> <<>>]
    ELSE LET z == LeadCount(str, Alphabet[1])
             digs == [i \in 1..(Len(str) - z) |-> DigitOf(str[z + i])]
         IN [ok |-> TRUE,
             bytes |-> Zero(z) \o Strip(Digits(digs, 58, 256, Len(digs))[2])]

\* base58::validate(const std::string&)
base58_validate(str) == \A i \in 1..Len(str) : DigitOf(str[i]) >= 0

\* the four bytes of a checksum, least significant first
LittleEndian(c) == <<c.lo % 256, c.lo \div 256, c.hi % 256, c.hi \div 256>>

\* base58::decode(const std::string&, std::vector<unsigned char>&): the
\* Base58Check decode; data is the payload with the checksum stripped
base58_decode(str) ==
    LET raw == alphabet_decode(str)
        n == Len(raw.bytes) - 4
    IN IF ~raw.ok \/ n < 0
       THEN [ok |-> FALSE, data |-> <<>>]
       ELSE IF LittleEndian(crc32(SubSeq(raw.bytes, 1, n)))
                   # SubSeq(raw.bytes, n + 1, n + 4)
       THEN [ok |-> FALSE, data |-> <<>>]
       ELSE [ok |-> TRUE, data |-> SubSeq(raw.bytes, 1, n)]

(***************************************************************************)
(* The fixed-size templates base58::encode<N> and base58::decode<N>.       *)
(***************************************************************************)
\* std::string::c_str(), read back as a std::string: the characters before
\* the first NUL
CStr(str) ==
    IF \A i \in 1..Len(str) : str[i] # 0 THEN str
    ELSE SubSeq(str, 1, (CHOOSE i \in 1..Len(str) :
                            str[i] = 0 /\ \A j \in 1..(i - 1) : str[j] # 0) - 1)

\* base58::encode<N> with the checksum appended most significant byte first
base58_encodeN_BigEndian(data) ==
    LET crc32_ == crc32(data)
        vch == data \o << LowByte(Shr32(crc32_, 24)),
                          LowByte(Shr32(crc32_, 16)),
                          LowByte(Shr32(crc32_, 8)),
                          LowByte(crc32_) >>
    IN base58_encode(vch)

\* base58::encode<N>(const std::array<unsigned char, N>&)
base58_encodeN(data) ==
    LET crc32_ == crc32(data)
        vch == data \o << LowByte(crc32_),
                          LowByte(Shr32(crc32_, 8)),
                          LowByte(Shr32(crc32_, 16)),
                          LowByte(Shr32(crc32_, 24)) >>
    IN base58_encode(vch)

(***************************************************************************)
(* The buffers and strings the operations are applied to.                  *)
(***************************************************************************)
\* key material: k - 1 leading zero bytes, then a byte pattern
Buffer(n, k) == [i \in 1..n |-> IF i < k THEN 0 ELSE (i * 37 + k * 101) % 256]

Contents(n) == {Zero(n)} \cup {Buffer(n, k) : k \in 1..NumBuffers}

EncodeTable ==
    [d \in {b : b \in UNION {Contents(n) : n \in Sizes}} |-> base58_encodeN(d)]

\* what Data<n>::encode can return
Encoded(n) == {EncodeTable[d] : d \in Contents(n)}

\* bit p (0 = least significant bit of the first byte) of bytes inverted
FlipBit(bytes, p) ==
    [bytes EXCEPT ![(p \div 8) + 1] = Xor(@, 2^(p % 8))]

\* sampled bit positions of payload ++ checksum of an n-byte container
FlipPositions(n) ==
    {(j * 61) % (8 * n) : j \in 0..(MaxFlips - 1)}
        \cup {8 * n + ((j * 11) % 32) : j \in 0..(MaxFlips - 1)}

\* the Base58 string of the bytes behind str with bit p inverted
Corrupt(str, p) == base58_encode(FlipBit(alphabet_decode(str).bytes, p))

CorruptTable ==
    [k \in {e : e \in UNION {Encoded(n) \X FlipPositions(n) : n \in Sizes}}
        |-> Corrupt(k[1], k[2])]

\* str with its last character replaced by 'l', which is not of the alphabet
BadChar(str) == [str EXCEPT ![Len(str)] = 108]

\* str followed by a NUL character and '!'
WithNul(str) == str \o <<0, 33>>

\* Base58Check strings of payloads that are not n bytes long
WrongSize(n) ==
    {base58_encodeN(Buffer(m, 1)) : m \in {0, 1, n - 1, n + 1, (hash + double_hash) - n}}

\* Base58 strings of fewer than four raw bytes
TooShort == {base58_encode(raw) : raw \in {<<>>, <<0>>, <<7>>, <<0, 0, 0>>, <<1, 2, 3>>}}

ForeignTable ==
    [n \in Sizes |->
        WrongSize(n) \cup TooShort
            \cup {WithNul(base58_encodeN(Buffer(1, 1))), <<48, 79, 73, 108>>}]

\* the strings a caller passes to decode and validate, given the string it got
\* from encode
Inputs(n, given) ==
    (IF given \in Encoded(n)
     THEN {given, BadChar(given), WithNul(given)}
              \cup {CorruptTable[<<given, p>>] : p \in FlipPositions(n)}
     ELSE {})
        \cup ForeignTable[n]

AllInputs ==
    {s : s \in UNION {Inputs(n, given) : n \in Sizes, given \in UNION {Encoded(m) : m \in Sizes}}}

DecodeTable == [str \in {CStr(s) : s \in AllInputs} |-> base58_decode(str)]

\* base58::decode<N> copying into the array before it checks the size
base58_decodeN_PartialCopy(N, base58, data) ==
    LET v == Cached(DecodeTable, CStr(base58), base58_decode(CStr(base58)))
        copied == [i \in 1..N |-> IF i <= Len(v.data) THEN v.data[i] ELSE data[i]]
    IN IF ~v.ok
       THEN [ret |-> FALSE, data |-> data, errors |-> <<BADFORMAT>>]
       ELSE IF Len(v.data) # N
       THEN [ret |-> FALSE, data |-> copied, errors |-> <<UNEXPECTED_SIZE>>]
       ELSE [ret |-> TRUE, data |-> copied, errors |-> <<>>]

\* base58::decode<N> with the two error codes exchanged
base58_decodeN_KindsSwapped(N, base58, data) ==
    LET v == Cached(DecodeTable, CStr(base58), base58_decode(CStr(base58)))
    IN IF ~v.ok
       THEN [ret |-> FALSE, data |-> data, errors |-> <<UNEXPECTED_SIZE>>]
       ELSE IF Len(v.data) # N
       THEN [ret |-> FALSE, data |-> data, errors |-> <<BADFORMAT>>]
       ELSE [ret |-> TRUE, data |-> [i \in 1..N |-> v.data[i]], errors |-> <<>>]

\* base58::decode<N> returning on a size mismatch without calling error
base58_decodeN_Silent(N, base58, data) ==
    LET v == Cached(DecodeTable, CStr(base58), base58_decode(CStr(base58)))
    IN IF ~v.ok
       THEN [ret |-> FALSE, data |-> data, errors |-> <<BADFORMAT>>]
       ELSE IF Len(v.data) # N
       THEN [ret |-> FALSE, data |-> data, errors |-> <<>>]
       ELSE [ret |-> TRUE, data |-> [i \in 1..N |-> v.data[i]], errors |-> <<>>]

\* base58::decode<N> copying one byte too few
base58_decodeN_OffByOne(N, base58, data) ==
    LET v == Cached(DecodeTable, CStr(base58), base58_decode(CStr(base58)))
    IN IF ~v.ok
       THEN [ret |-> FALSE, data |-> data, errors |-> <<BADFORMAT>>]
       ELSE IF Len(v.data) # N
       THEN [ret |-> FALSE, data |-> data, errors |-> <<UNEXPECTED_SIZE>>]
       ELSE [ret |-> TRUE,
             data |-> [i \in 1..N |-> IF i < N THEN v.data[i] ELSE data[i]],
             errors |-> <<>>]

\* base58::decode<N>(const std::string&, std::array<unsigned char, N>&,
\* const ErrorHandler&): the return value, the array afterwards, and the codes
\* the error handler was called with, in order
base58_decodeN(N, base58, data) ==
    LET v == Cached(DecodeTable, CStr(base58), base58_decode(CStr(base58)))
    IN IF ~v.ok
       THEN [ret |-> FALSE, data |-> data, errors |-> <<BADFORMAT>>]
       ELSE IF Len(v.data) # N
       THEN [ret |-> FALSE, data |-> data, errors |-> <<UNEXPECTED_SIZE>>]
       ELSE [ret |-> TRUE, data |-> [i \in 1..N |-> v.data[i]], errors |-> <<>>]

(***************************************************************************)
(* class Data<N>.                                                          *)
(***************************************************************************)
\* Data<N>::clean
Data_clean(data) == [i \in 1..Len(data) |-> 0]

\* Data<N>::encode
Data_encode(data) == Cached(EncodeTable, data, base58_encodeN(data))

\* Data<N>::decode
Data_decode(N, base58, data) == base58_decodeN(N, base58, data)

\* Data<N>::validate delegating to the checksum-verifying decode
Data_validate_Checked(check) ==
    base58_validate(check) /\ Cached(DecodeTable, check, base58_decode(check)).ok

\* Data<N>::validate
Data_validate(check) == base58_validate(check)

(***************************************************************************)
(* State.                                                                  *)
(***************************************************************************)
VARIABLES
    size,      \* N of the container Data<N>
    alive,     \* whether the container's lifetime has begun and not ended
    mem,       \* the N bytes of the container's storage
    out,       \* the caller's string, last returned by encode()
    encoded,   \* the bytes the container held when `out` was returned
    op,        \* the last operation
    arg,       \* the string last passed to decode or validate
    ret,       \* what the last decode or validate returned
    errs,      \* the codes the error handler received during the last call
    before,    \* the container's bytes before the last operation
    checked,   \* what validate returned for `arg`, if it was called on it
    pstate,    \* per Pair slot: "none", "live" or "released"
    publicKey_,  \* per Pair slot: the bytes of its Public member
    privateKey_, \* per Pair slot: the bytes of its Private member
    held       \* per Pair slot: whether it held key material since created

dataVars == <<size, alive, mem, out, encoded, op, arg, ret, errs, before, checked>>
pairVars == <<pstate, publicKey_, privateKey_, held>>
vars == <<dataVars, pairVars>>

Slots == 1..MaxPairs

NoPairs ==
    /\ pstate = [i \in Slots |-> "none"]
    /\ publicKey_ = [i \in Slots |-> Zero(public_key)]
    /\ privateKey_ = [i \in Slots |-> Zero(private_key)]
    /\ held = [i \in Slots |-> FALSE]

\* a default-constructed Data<N>, N one of the sizes of namespace size
Init ==
    /\ size \in Sizes
    /\ alive = TRUE
    /\ mem = Data_clean(Zero(size))
    /\ out = <<>>
    /\ encoded = <<>>
    /\ op = "construct"
    /\ arg = <<>>
    /\ ret = FALSE
    /\ errs = <<>>
    /\ before = Zero(size)
    /\ checked = "unchecked"
    /\ NoPairs

\* Data(): binary_data() { clean(); } on the storage of a destroyed container
Construct ==
    /\ ~alive
    /\ alive' = TRUE
    /\ mem' = Data_clean(mem)
    /\ op' = "construct"
    /\ before' = mem
    /\ ret' = FALSE /\ errs' = <<>>
    /\ UNCHANGED <<size, out, encoded, pairVars>>
    /\ arg' = <<>> /\ checked' = "unchecked"

\* clean()
Clean ==
    /\ alive
    /\ mem' = Data_clean(mem)
    /\ op' = "clean"
    /\ before' = mem
    /\ ret' = FALSE /\ errs' = <<>>
    /\ UNCHANGED <<size, alive, out, encoded, pairVars>>
    /\ arg' = <<>> /\ checked' = "unchecked"

\* the owner writes key material through the std::array base class
Assign(b) ==
    /\ alive
    /\ mem' = b
    /\ op' = "assign"
    /\ before' = mem
    /\ ret' = FALSE /\ errs' = <<>>
    /\ UNCHANGED <<size, alive, out, encoded, pairVars>>
    /\ arg' = <<>> /\ checked' = "unchecked"

\* out = encode()
Encode ==
    /\ alive
    /\ out' = Data_encode(mem)
    /\ encoded' = mem
    /\ op' = "encode"
    /\ before' = mem
    /\ ret' = FALSE /\ errs' = <<>>
    /\ UNCHANGED <<size, alive, mem, pairVars>>
    /\ arg' = <<>> /\ checked' = "unchecked"

\* decode(str, error)
Decode(str) ==
    /\ alive
    /\ LET r == Data_decode(size, str, mem)
       IN /\ mem' = r.data
          /\ ret' = r.ret
          /\ errs' = r.errors
    /\ op' = "decode"
    /\ arg' = str
    /\ before' = mem
    /\ checked' = IF str = arg THEN checked ELSE "unchecked"
    /\ UNCHANGED <<size, alive, out, encoded, pairVars>>

\* Data<N>::validate(str), a static member: needs no container
Validate(str) ==
    /\ ret' = Data_validate(str)
    /\ checked' = IF Data_validate(str) THEN "valid" ELSE "invalid"
    /\ op' = "validate"
    /\ arg' = str
    /\ before' = mem
    /\ errs' = <<>>
    /\ UNCHANGED <<size, alive, mem, out, encoded, pairVars>>

\* the end of the container's lifetime: Data, Seed, Public and Private declare
\* no destructor, and std::array's is trivial, so no byte is written
Destroy ==
    /\ alive
    /\ alive' = FALSE
    /\ op' = "destroy"
    /\ before' = mem
    /\ ret' = FALSE /\ errs' = <<>>
    /\ UNCHANGED <<size, mem, out, encoded, pairVars>>
    /\ arg' = <<>> /\ checked' = "unchecked"

Next ==
    \/ Construct
    \/ Clean
    \/ \E b \in Contents(size) : Assign(b)
    \/ Encode
    \/ \E str \in Inputs(size, out) : Decode(str)
    \/ \E str \in Inputs(size, out) : Validate(str)
    \/ Destroy

Spec == Init /\ [][Next]_vars

(***************************************************************************)
(* class keys::Pair.                                                       *)
(***************************************************************************)
\* Pair::clean with privateKey_.clean() left out
Pair_clean_PublicOnly(pair) ==
    [pub |-> Data_clean(pair.pub), priv |-> pair.priv]

\* Pair::clean: pub is publicKey_, priv is privateKey_
Pair_clean(pair) ==
    [pub |-> Data_clean(pair.pub), priv |-> Data_clean(pair.priv)]

\* Pair::~Pair
Pair_dtor(pair) == Pair_clean(pair)

\* Pair::Pair(): both members are default-constructed
Pair_ctor == [pub |-> Data_clean(Zero(public_key)), priv |-> Data_clean(Zero(private_key))]

\* the key pairs the key derivation primitive yields
KeyPairs == {[pub |-> Buffer(public_key, k), priv |-> Buffer(private_key, k)] : k \in 1..NumBuffers}

\* the strings passed to Pair::FromPrivateKey
PrivateKeyStrings ==
    {EncodeTable[kp.priv] : kp \in KeyPairs} \cup {<<48, 79, 73, 108>>}

PairAt(i) == [pub |-> publicKey_[i], priv |-> privateKey_[i]]

\* slot i holds pair, in state st
PutPair(i, st, pair, h) ==
    /\ pstate' = [pstate EXCEPT ![i] = st]
    /\ publicKey_' = [publicKey_ EXCEPT ![i] = pair.pub]
    /\ privateKey_' = [privateKey_ EXCEPT ![i] = pair.priv]
    /\ held' = [held EXCEPT ![i] = h]
    /\ UNCHANGED dataVars

\* Pair::Random, Pair::WithSecret: a Pair is constructed and its keys derived
PairDerive(i, kp) ==
    /\ pstate[i] # "live"
    /\ PutPair(i, "live", [pub |-> kp.pub, priv |-> kp.priv], TRUE)

\* Pair::FromPrivateKey(str, error): a Pair is constructed and str decoded into
\* its privateKey_; on failure the function returns and the Pair is destroyed
PairFromPrivateKey(i, str) ==
    /\ pstate[i] # "live"
    /\ LET pair == Pair_ctor
           r == Data_decode(private_key, str, pair.priv)
       IN IF r.ret
          THEN PutPair(i, "live",
                       [pub |-> (CHOOSE kp \in KeyPairs : kp.priv = r.data).pub,
                        priv |-> r.data], TRUE)
          ELSE PutPair(i, "released", Pair_dtor([pub |-> pair.pub, priv |-> r.data]),
                       FALSE)

\* the copy constructor: a Pair returned inside a std::optional, or copied out
PairCopy(i, j) ==
    /\ pstate[i] = "live"
    /\ pstate[j] # "live"
    /\ PutPair(j, "live", PairAt(i), held[i])

\* Pair::clean()
PairClean(i) ==
    /\ pstate[i] = "live"
    /\ PutPair(i, "live", Pair_clean(PairAt(i)), held[i])

\* the end of a Pair's lifetime on any path: ~Pair() runs, the storage is released
PairDestroy(i) ==
    /\ pstate[i] = "live"
    /\ PutPair(i, "released", Pair_dtor(PairAt(i)), held[i])

NextPair ==
    \/ \E i \in Slots, kp \in KeyPairs : PairDerive(i, kp)
    \/ \E i \in Slots, str \in PrivateKeyStrings : PairFromPrivateKey(i, str)
    \/ \E i, j \in Slots : PairCopy(i, j)
    \/ \E i \in Slots : PairClean(i)
    \/ \E i \in Slots : PairDestroy(i)

SpecPair == Init /\ [][NextPair]_vars

(***************************************************************************)
(* Properties.                                                             *)
(***************************************************************************)
AlphabetSet == {Alphabet[k] : k \in 1..Len(Alphabet)}

\* what a string is, read as Base58Check: whether all its characters are of
\* the alphabet, its raw bytes, and whether the last four bytes are the
\* little-endian CRC32 of the bytes before them
Frame(str) ==
    LET raw == alphabet_decode(str)
        n == Len(raw.bytes) - 4
    IN [syntax |-> raw.ok,
        bytes |-> raw.bytes,
        verified |-> /\ raw.ok
                     /\ n >= 0
                     /\ SubSeq(raw.bytes, n + 1, n + 4)
                            = LittleEndian(crc32(SubSeq(raw.bytes, 1, n)))]

FrameTable == [str \in AllInputs |-> Frame(str)]

FrameOf(str) == Cached(FrameTable, str, Frame(str))

\* C1: decoding the string encode() returned, into a container of the same
\* size, returns true and leaves the container holding the encoded bytes
C1_RoundTrip ==
    (op = "decode" /\ Len(encoded) = size /\ arg = out)
        => (ret /\ mem = encoded)

C1_Witness ==
    /\ op = "decode" /\ Len(encoded) = size /\ arg = out
    /\ encoded # Zero(size)
    /\ before # encoded

\* C2: a decode that fails returns false, calls the error handler and leaves
\* every byte of the container as it was; only a successful decode changes
\* the bytes
C2_AllOrNothing ==
    op = "decode" =>
        /\ ~ret => (Len(errs) >= 1 /\ mem = before)
        /\ mem # before => ret

C2_Witness ==
    /\ op = "decode" /\ ~ret
    /\ before # Zero(size)
    /\ errs = <<UNEXPECTED_SIZE>>

\* C3: decoding a Base58-decodable string of fewer than 4 raw bytes fails and
\* the error handler receives EMPTY
C3_TooShortIsEmpty ==
    (op = "decode" /\ FrameOf(arg).syntax /\ Len(FrameOf(arg).bytes) < 4)
        => (~ret /\ errs = <<EMPTY>>)

\* C4: for a string whose checksum verifies, decode fails with UNEXPECTED_SIZE
\* exactly when the payload length differs from N; a string whose syntax or
\* checksum is bad reports BADFORMAT, never UNEXPECTED_SIZE
C4_LengthEnforcement ==
    op = "decode" =>
        LET f == FrameOf(arg)
        IN /\ f.verified =>
                ((~ret /\ errs = <<UNEXPECTED_SIZE>>) <=> (Len(f.bytes) - 4 # size))
           /\ (~f.syntax \/ (Len(f.bytes) >= 4 /\ ~f.verified)) =>
                (~ret /\ errs = <<BADFORMAT>>)

\* C4 for the strings that hold no NUL character
C4_WithoutNul ==
    (\A i \in 1..Len(arg) : arg[i] # 0) => C4_LengthEnforcement

\* C5: the string of payload ++ checksum with one bit inverted fails to
\* decode, with BADFORMAT
C5_ChecksumSensitivity ==
    (op = "decode" /\ out \in Encoded(size)
        /\ \E p \in FlipPositions(size) : arg = CorruptTable[<<out, p>>])
        => (~ret /\ errs = <<BADFORMAT>>)

C5_Witness ==
    /\ op = "decode" /\ out \in Encoded(size)
    /\ \E p \in FlipPositions(size) : p < 8 * size /\ arg = CorruptTable[<<out, p>>]
    /\ encoded # Zero(size)
    /\ ~ret

\* C6: after clean(), and after the destruction of the container, all N bytes
\* of its storage are zero
C6_Zeroing ==
    (op = "clean" \/ ~alive) => mem = Zero(size)

\* C7: every Pair whose storage was released has all bytes of both buffers zero
C7_PairWipe ==
    \A i \in Slots :
        pstate[i] = "released" =>
            (publicKey_[i] = Zero(public_key) /\ privateKey_[i] = Zero(private_key))

C7_Witness ==
    \E i, j \in Slots :
        /\ i # j
        /\ pstate[i] = "released" /\ held[i]
        /\ pstate[j] = "released" /\ held[j]

C9_WireFormat ==
    op = "encode" =>
        /\ FrameOf(out).syntax
        /\ FrameOf(out).bytes = mem \o LittleEndian(crc32(mem))
        /\ Len(mem) = size
        /\ mem = before

C9_Witness ==
    /\ op = "encode"
    /\ mem # Zero(size)
    /\ mem[1] = 0

\* C10: the error handler is called exactly once when decode returns false and
\* not at all when it returns true, with BADFORMAT, UNEXPECTED_SIZE or EMPTY
C10_ErrorSignalling ==
    op = "decode" =>
        /\ ret => errs = <<>>
        /\ ~ret => Len(errs) = 1
        /\ \A i \in 1..Len(errs) : errs[i] \in {BADFORMAT, UNEXPECTED_SIZE, EMPTY}

C10_Witness ==
    /\ op = "decode" /\ ~ret
    /\ errs = <<BADFORMAT>>
    /\ FrameOf(arg).syntax /\ Len(FrameOf(arg).bytes) >= 4

====
